---- MODULE Spec2Model ----
(***************************************************************************)
(* Visitor analytics of the markdown site (convex/stats.ts): the page-view *)
(* event log with its 30 minute deduplication, the heartbeat table of      *)
(* active sessions with its 10 second debounce, the three aggregates       *)
(* maintained with insertIfDoesNotExist, the stale-session cleanup and the *)
(* aggregate backfill.  Every mutation runs as one transaction, so each is *)
(* one atomic action.  Times are milliseconds, as returned by Date.now().  *)
(***************************************************************************)
EXTENDS Integers, Sequences, FiniteSets, Bags, TLC

\* ---------------------------------------------------------------- constants
DEDUP_WINDOW_MS == 30 * 60 * 1000

SESSION_TIMEOUT_MS == 2 * 60 * 1000

HEARTBEAT_DEDUP_MS == 10 * 1000

\* ------------------------------------------------------------------- bounds
\* Cap on the length of the page-view log.
MaxEvents == 3

\* Instants at which Date.now() is sampled.  Measured from 0, 9999 and 10000
\* they fall on both sides of each threshold of the code: 9999 and 10000 ms
\* (heartbeat debounce), 120000 and 120001 ms (session timeout), 1799999 and
\* 1800000 ms (dedup window).
Times == {0, 9999, 10000, 130000, 1809999}

\* Fewer instants, on both sides of the dedup window, for the page-view side
\* with an observer or with the aggregate deployment.
CoarseTimes == {0, 9999, 1809999}

\* The instants used when both sides of the backend run together: a first
\* one and one after which every window and every timeout has passed.
FarTimes == {0, 1809999}

Sessions == {"s1", "s2"}

\* Strings the code takes apart (paths, slugs, titles) are sequences of
\* characters.
Paths == {<<"/", "a">>, <<"/", "b">>}

PageTypes == {"blog"}

\* Longest slug parameter of a request for raw markdown.
MaxSlugLen == 4

\* The characters of a slug parameter: whitespace, the slash, and what it
\* takes to write a name with the extension .md.
SlugChars == {" ", "/", ".", "m", "d"}

\* The two directories the raw function reads.
Dirs == {"public", "dist"}

\* Absent document (the null of .first()).
NoDoc == 0

\* An absent optional value (undefined, null) is the empty set, a present one
\* the singleton of the value.
Absent == {}

\* No file is known.
NoFiles == <<>>

\* The handler has not returned.
NoResponse ==
  [statusCode |-> 0, contentType |-> "", allowOrigin |-> "",
   cacheControl |-> "", body |-> <<>>]

VARIABLES
  now,              \* the value Date.now() returns
  pageViews,        \* table pageViews, in creation order; _id = position
  activeSessions,   \* table activeSessions, in creation order
  pageViewsByPath,  \* aggregate: bag of items, namespace = path
  totalPageViews,   \* aggregate: bag of items, key null
  uniqueVisitors,   \* aggregate: bag of items, key = sessionId
  last,             \* the operation executed last: its name, outcome, result
  prevCall,         \* observer: per (sessionId, path), time of the latest
                    \* recordPageView call and whether it stored an event
  afterSuppressed,  \* observer: the pairs (sessionId, path) whose latest
                    \* call came after a suppressed call of the pair
  lastWrite,        \* observer: per sessionId, time and path of the latest
                    \* write of its ActiveSession row, the time since the
                    \* write before it and whether that carried the same path
  lastBeat,         \* observer: per sessionId, time of the latest heartbeat
                    \* call, whether it wrote the row or not
  posts,            \* table posts, in creation order
  pages,            \* table pages, in creation order
  request,          \* raw function: the slug query parameter, or absent
  files,            \* raw function: the files under public/raw and dist/raw
  response,         \* raw function: what the handler returned
  authorPage,       \* author page: unmounted, mounted or crashed
  authorSlug,       \* author page: the route parameter, or absent
  authorPosts,      \* author page: the number of posts the query returned,
                    \* absent while the query has no result (undefined)
  viewMode,         \* author page: the state "list" or "cards"
  storage           \* localStorage: the item author-view-mode, or absent

vars ==
  <<now, pageViews, activeSessions, pageViewsByPath, totalPageViews,
    uniqueVisitors, last, prevCall, afterSuppressed, lastWrite, lastBeat,
    posts, pages, request, files, response, authorPage, authorSlug,
    authorPosts, viewMode, storage>>

aggregates == <<pageViewsByPath, totalPageViews, uniqueVisitors>>

observers == <<prevCall, afterSuppressed, lastWrite, lastBeat>>

\* The content tables and the raw-markdown function, which no analytics
\* mutation touches.
site == <<posts, pages, request, files, response, authorPage, authorSlug,
          authorPosts, viewMode, storage>>

\* The backend and the raw function, which the author page does not touch.
backend ==
  <<now, pageViews, activeSessions, pageViewsByPath, totalPageViews,
    uniqueVisitors, posts, pages, request, files, response>>

Done(op, outcome, count) == [op |-> op, outcome |-> outcome, count |-> count]

\* ------------------------------------------------------------ the aggregates
\* Files every path under one namespace.
pageViewsByPathItemNoNamespace(doc, id) ==
  [namespace |-> <<>>, key |-> doc.timestamp, id |-> id]

\* Item of pageViewsByPath for a document: namespace doc.path, sort key
\* doc.timestamp, identified by the document id.
pageViewsByPathItem(doc, id) ==
  [namespace |-> doc.path, key |-> doc.timestamp, id |-> id]

\* Item of totalPageViews: no namespace, sort key null.
totalPageViewsItem(doc, id) ==
  [namespace |-> "", key |-> "null", id |-> id]

\* Item of uniqueVisitors: no namespace, sort key doc.sessionId.
uniqueVisitorsItem(doc, id) ==
  [namespace |-> "", key |-> doc.sessionId, id |-> id]

\* A plain insert, which counts the item once more whether or not it is there.
insertAlways(aggregate, item) ==
  aggregate (+) SetToBag({item})

\* TableAggregate.insertIfDoesNotExist
insertIfDoesNotExist(aggregate, item) ==
  IF BagIn(item, aggregate) THEN aggregate ELSE aggregate (+) SetToBag({item})

\* ------------------------------------------------------------ recordPageView
\* Positions of the events of (sessionId, path): index by_session_path.
\* Looks the session up without the path.
bySessionAnyPath(sessionId, path) ==
  {i \in 1..Len(pageViews) : pageViews[i].sessionId = sessionId}

bySessionPath(sessionId, path) ==
  {i \in 1..Len(pageViews) :
     pageViews[i].sessionId = sessionId /\ pageViews[i].path = path}

SetMax(S) == CHOOSE x \in S : \A y \in S : y <= x

SetMin(S) == CHOOSE x \in S : \A y \in S : x <= y

\* The oldest event of the pair instead of the newest.
recentViewAsc(sessionId, path) ==
  IF bySessionPath(sessionId, path) = {} THEN NoDoc
  ELSE SetMin(bySessionPath(sessionId, path))

\* .withIndex("by_session_path", eq sessionId, eq path).order("desc").first():
\* the event of the pair created last, or null.
recentView(sessionId, path) ==
  IF bySessionPath(sessionId, path) = {} THEN NoDoc
  ELSE SetMax(bySessionPath(sessionId, path))

\* The comparison the wrong way round: suppresses on an old event.
withinDedupWindowInverted(timestamp, at) ==
  timestamp < at - DEDUP_WINDOW_MS

\* A window one millisecond too short.
withinDedupWindowShort(timestamp, at) ==
  timestamp > (at - DEDUP_WINDOW_MS) + 1

\* Suppresses the view that comes exactly one window after the event.
withinDedupWindowInclusive(timestamp, at) ==
  timestamp >= at - DEDUP_WINDOW_MS

\* A window of one hour.
withinDedupWindowHour(timestamp, at) ==
  timestamp > at - 2 * DEDUP_WINDOW_MS

\* recentView.timestamp > dedupCutoff, with dedupCutoff = now - DEDUP_WINDOW_MS
withinDedupWindow(timestamp, at) ==
  timestamp > at - DEDUP_WINDOW_MS

\* Takes every stored view for the view of a new visitor.
isNewVisitorAlways(sessionId) == TRUE

\* Takes no stored view for the view of a new visitor.
isNewVisitorNever(sessionId) == FALSE

\* .withIndex("by_session_path", eq sessionId).first() is null
isNewVisitor(sessionId) ==
  \A i \in 1..Len(pageViews) : pageViews[i].sessionId # sessionId

recordPageView(path, pageType, sessionId) ==
  LET rv == recentView(sessionId, path) IN
  IF rv # NoDoc /\ withinDedupWindow(pageViews[rv].timestamp, now)
  THEN \* early return
       /\ last' = Done("recordPageView", "duplicate", 0)
       /\ UNCHANGED <<now, pageViews, activeSessions, aggregates>>
  ELSE LET doc == [path |-> path, pageType |-> pageType,
                   sessionId |-> sessionId, timestamp |-> now]
           id == Len(pageViews) + 1
       IN /\ pageViews' = Append(pageViews, doc)
          /\ pageViewsByPath' =
               insertIfDoesNotExist(pageViewsByPath, pageViewsByPathItem(doc, id))
          /\ totalPageViews' =
               insertIfDoesNotExist(totalPageViews, totalPageViewsItem(doc, id))
          /\ uniqueVisitors' =
               IF isNewVisitor(sessionId)
               THEN insertIfDoesNotExist(uniqueVisitors, uniqueVisitorsItem(doc, id))
               ELSE uniqueVisitors
          /\ last' = Done("recordPageView", "stored", 0)
          /\ UNCHANGED <<now, activeSessions>>

\* ----------------------------------------------------------------- heartbeat
\* Positions of the rows of sessionId: index by_sessionId.
bySessionId(sessionId) ==
  {i \in 1..Len(activeSessions) : activeSessions[i].sessionId = sessionId}

\* Never finds the row.
existingSessionNone(sessionId) == NoDoc

\* .withIndex("by_sessionId", eq sessionId).first(): the oldest row, or null.
existingSession(sessionId) ==
  IF bySessionId(sessionId) = {} THEN NoDoc ELSE SetMin(bySessionId(sessionId))

\* The path test the wrong way round: debounces only a changed path.
recentlySeenOtherPath(row, currentPath, at) ==
  row.currentPath # currentPath /\ at - row.lastSeen < HEARTBEAT_DEDUP_MS

\* Debounces on recency alone, whatever the path.
recentlySeenAnyPath(row, currentPath, at) ==
  at - row.lastSeen < HEARTBEAT_DEDUP_MS

\* Debounces up to and including 10 seconds.
recentlySeenInclusive(row, currentPath, at) ==
  row.currentPath = currentPath /\ at - row.lastSeen <= HEARTBEAT_DEDUP_MS

\* existingSession.currentPath === args.currentPath &&
\* now - existingSession.lastSeen < HEARTBEAT_DEDUP_MS
recentlySeen(row, currentPath, at) ==
  row.currentPath = currentPath /\ at - row.lastSeen < HEARTBEAT_DEDUP_MS

heartbeat(sessionId, currentPath) ==
  LET es == existingSession(sessionId) IN
  /\ IF es # NoDoc
     THEN IF recentlySeen(activeSessions[es], currentPath, now)
          THEN \* early return
               /\ last' = Done("heartbeat", "skip", 0)
               /\ UNCHANGED activeSessions
          ELSE /\ activeSessions' =
                    [activeSessions EXCEPT
                       ![es] = [@ EXCEPT !.currentPath = currentPath,
                                         !.lastSeen = now]]
               /\ last' = Done("heartbeat", "patch", 0)
     ELSE /\ activeSessions' =
               Append(activeSessions,
                      [sessionId |-> sessionId, currentPath |-> currentPath,
                       lastSeen |-> now])
          /\ last' = Done("heartbeat", "insert", 0)
  /\ UNCHANGED <<now, pageViews, aggregates>>

\* ------------------------------------------------------ cleanupStaleSessions
\* Also takes the row that sits exactly on the cutoff.
isStaleInclusive(row, at) ==
  row.lastSeen <= at - SESSION_TIMEOUT_MS

\* Takes the cutoff of the cleanup one debounce interval too late.
isStaleEarly(row, at) ==
  row.lastSeen < (at - SESSION_TIMEOUT_MS) + HEARTBEAT_DEDUP_MS

\* .withIndex("by_lastSeen", lt lastSeen cutoff), cutoff = now - timeout
isStale(row, at) ==
  row.lastSeen < at - SESSION_TIMEOUT_MS

\* Finds nothing to delete.
staleSessionsNone(at) == {}

staleSessions(at) ==
  {i \in 1..Len(activeSessions) : isStale(activeSessions[i], at)}

\* The rows at the positions in keep, in their order.
RECURSIVE Restrict(_, _, _)
Restrict(table, keep, i) ==
  IF i > Len(table) THEN <<>>
  ELSE IF i \in keep THEN <<table[i]>> \o Restrict(table, keep, i + 1)
       ELSE Restrict(table, keep, i + 1)

\* Deletes the page views of the stale sessions along with their rows.
cleanupStaleSessionsAndViews ==
  LET stale == staleSessions(now)
      gone == {activeSessions[i].sessionId : i \in stale}
  IN /\ activeSessions' =
          Restrict(activeSessions, (1..Len(activeSessions)) \ stale, 1)
     /\ pageViews' =
          Restrict(pageViews,
                   {i \in 1..Len(pageViews) : pageViews[i].sessionId \notin gone},
                   1)
     /\ last' = Done("cleanupStaleSessions", "deleted", Cardinality(stale))
     /\ UNCHANGED <<now, aggregates>>

cleanupStaleSessions ==
  LET stale == staleSessions(now) IN
  /\ activeSessions' =
       Restrict(activeSessions, (1..Len(activeSessions)) \ stale, 1)
  /\ last' = Done("cleanupStaleSessions", "deleted", Cardinality(stale))
  /\ UNCHANGED <<now, pageViews, aggregates>>

\* -------------------------------------------------------- backfillAggregates
\* The loop over allViews from position i on: the three aggregates and the
\* sessions seen so far are threaded through; the result is
\* <<pageViewsByPath, totalPageViews, uniqueVisitors, uniqueCount>>.
RECURSIVE backfillFrom(_, _, _, _, _, _)
backfillFrom(i, byPath, total, unique, seenSessions, uniqueCount) ==
  IF i > Len(pageViews) THEN <<byPath, total, unique, uniqueCount>>
  ELSE LET doc == pageViews[i]
           fresh == doc.sessionId \notin seenSessions
       IN backfillFrom(
            i + 1,
            insertIfDoesNotExist(byPath, pageViewsByPathItem(doc, i)),
            insertIfDoesNotExist(total, totalPageViewsItem(doc, i)),
            IF fresh
            THEN insertIfDoesNotExist(unique, uniqueVisitorsItem(doc, i))
            ELSE unique,
            IF fresh THEN seenSessions \cup {doc.sessionId} ELSE seenSessions,
            IF fresh THEN uniqueCount + 1 ELSE uniqueCount)

backfillAggregates ==
  LET r == backfillFrom(1, pageViewsByPath, totalPageViews, uniqueVisitors,
                        {}, 0)
  IN /\ pageViewsByPath' = r[1]
     /\ totalPageViews' = r[2]
     /\ uniqueVisitors' = r[3]
     /\ last' = Done("backfillAggregates", "processed", Len(pageViews))
     /\ UNCHANGED <<now, pageViews, activeSessions>>

\* ------------------------------------------------------------------ getStats
\* The positions in S by ascending key, equal keys in ascending position.
Ordered(S, key) ==
  [r \in 1..Cardinality(S) |->
     CHOOSE i \in S :
       Cardinality({j \in S : \/ key[j] < key[i]
                              \/ key[j] = key[i] /\ j < i}) = r - 1]

\* Also counts the row that sits exactly on the cutoff.
activeSinceInclusive(sessionCutoff) ==
  LET S == {i \in 1..Len(activeSessions) :
              activeSessions[i].lastSeen >= sessionCutoff}
      byLastSeen == [i \in S |-> activeSessions[i].lastSeen]
      at == Ordered(S, byLastSeen)
  IN [r \in 1..Len(at) |-> activeSessions[at[r]]]

\* .withIndex("by_lastSeen", gt lastSeen sessionCutoff).collect(): the rows
\* seen after the cutoff, in the order of the index (lastSeen, then creation).
activeSince(sessionCutoff) ==
  LET S == {i \in 1..Len(activeSessions) :
              activeSessions[i].lastSeen > sessionCutoff}
      byLastSeen == [i \in S |-> activeSessions[i].lastSeen]
      at == Ordered(S, byLastSeen)
  IN [r \in 1..Len(at) |-> activeSessions[at[r]]]

\* for (const x of xs) map[x.k] = (map[x.k] || 0) + 1, from position i on.
\* The map is the sequence of its entries in insertion order, which is the
\* order Object.entries and Object.keys give for keys that are not integers.
RECURSIVE countInto(_, _, _)
countInto(map, keys, i) ==
  IF i > Len(keys) THEN map
  ELSE LET at == {j \in 1..Len(map) : map[j].key = keys[i]}
       IN countInto(
            IF at = {} THEN Append(map, [key |-> keys[i], count |-> 1])
            ELSE [j \in 1..Len(map) |->
                    IF j \in at THEN [map[j] EXCEPT !.count = @ + 1]
                    ELSE map[j]],
            keys, i + 1)

\* Sorted with (a, b) => a - b: smallest first.
sortAscending(entries, n) ==
  LET at == Ordered(1..Len(entries), n)
  IN [r \in 1..Len(entries) |-> entries[at[r]]]

\* .sort((a, b) => b.n - a.n), n[i] being the number of entries[i]: largest
\* first, equal entries in their original order (the sort is stable).
sortDescending(entries, n) ==
  LET at == Ordered(1..Len(entries), [i \in 1..Len(entries) |-> 0 - n[i]])
  IN [r \in 1..Len(entries) |-> entries[at[r]]]

\* The newest event instead of the oldest.
firstViewDesc ==
  IF pageViews = <<>> THEN Absent
  ELSE LET i == CHOOSE i \in 1..Len(pageViews) :
                  \A j \in 1..Len(pageViews) :
                    \/ pageViews[j].timestamp < pageViews[i].timestamp
                    \/ pageViews[j].timestamp = pageViews[i].timestamp /\ j <= i
       IN {pageViews[i]}

\* .withIndex("by_timestamp").order("asc").first(): the event with the least
\* timestamp, the one created first among equals, or null.
firstView ==
  IF pageViews = <<>> THEN Absent
  ELSE LET i == CHOOSE i \in 1..Len(pageViews) :
                  \A j \in 1..Len(pageViews) :
                    \/ pageViews[i].timestamp < pageViews[j].timestamp
                    \/ pageViews[i].timestamp = pageViews[j].timestamp /\ i <= j
       IN {pageViews[i]}

\* .withIndex("by_published", eq published true).collect()
published(table) == SelectSeq(table, LAMBDA doc : doc.published)

\* table.find((p) => p.slug === slug): the first such document, or undefined.
find(table, slug) ==
  LET hits == {i \in 1..Len(table) : table[i].slug = slug}
  IN IF hits = {} THEN Absent ELSE {table[SetMin(hits)]}

HomeTitle == <<"H", "o", "m", "e">>

StatsTitle == <<"S", "t", "a", "t", "s">>

StatsPath == <<"/", "s", "t", "a", "t", "s">>

\* path.startsWith("/") ? path.slice(1) : path
slugOf(path) ==
  IF Len(path) > 0 /\ path[1] = "/" THEN Tail(path) ELSE path

\* Looks for a post or a page before it looks at "/stats".
pageStatContentFirst(path, views, publishedPosts, publishedPages) ==
  LET post == find(publishedPosts, slugOf(path))
      page == find(publishedPages, slugOf(path))
      titled(title, pageType) ==
        [path |-> path, title |-> title, pageType |-> pageType,
         views |-> views]
  IN IF path = <<"/">> \/ path = <<>> THEN titled(HomeTitle, "home")
     ELSE IF post # Absent
          THEN titled((CHOOSE p \in post : TRUE).title, "blog")
     ELSE IF page # Absent
          THEN titled((CHOOSE p \in page : TRUE).title, "page")
     ELSE IF path = StatsPath THEN titled(StatsTitle, "stats")
     ELSE titled(path, "other")

\* One element of pageStats: the path, its title, its type and its views.
pageStat(path, views, publishedPosts, publishedPages) ==
  LET post == find(publishedPosts, slugOf(path))
      page == find(publishedPages, slugOf(path))
      titled(title, pageType) ==
        [path |-> path, title |-> title, pageType |-> pageType,
         views |-> views]
  IN IF path = <<"/">> \/ path = <<>> THEN titled(HomeTitle, "home")
     ELSE IF path = StatsPath THEN titled(StatsTitle, "stats")
     ELSE IF post # Absent
          THEN titled((CHOOSE p \in post : TRUE).title, "blog")
     ELSE IF page # Absent
          THEN titled((CHOOSE p \in page : TRUE).title, "page")
     ELSE titled(path, "other")

\* allPageViews.length
totalPageViewsCount == Len(pageViews)

\* Counts the sessions of the active rows.
uniqueVisitorsCountActive ==
  Cardinality({activeSessions[i].sessionId : i \in 1..Len(activeSessions)})

\* new Set(allPageViews.map((v) => v.sessionId)).size
uniqueVisitorsCount ==
  Cardinality({pageViews[i].sessionId : i \in 1..Len(pageViews)})

\* What getStats returns when Date.now() is at.
getStatsReturn(at) ==
  LET sessionCutoff == at - SESSION_TIMEOUT_MS
      active == activeSince(sessionCutoff)
      activeByPathMap ==
        countInto(<<>>, [i \in 1..Len(active) |-> active[i].currentPath], 1)
      activeEntries ==
        [i \in 1..Len(activeByPathMap) |->
           [path |-> activeByPathMap[i].key,
            count |-> activeByPathMap[i].count]]
      pathCountsFromDb ==
        countInto(<<>>, [i \in 1..Len(pageViews) |-> pageViews[i].path], 1)
      publishedPosts == published(posts)
      publishedPages == published(pages)
      stats ==
        [i \in 1..Len(pathCountsFromDb) |->
           pageStat(pathCountsFromDb[i].key, pathCountsFromDb[i].count,
                    publishedPosts, publishedPages)]
  IN [activeVisitors |-> Len(active),
      activeByPath |->
        sortDescending(activeEntries,
                       [i \in 1..Len(activeEntries) |-> activeEntries[i].count]),
      totalPageViews |-> totalPageViewsCount,
      uniqueVisitors |-> uniqueVisitorsCount,
      publishedPosts |-> Len(publishedPosts),
      publishedPages |-> Len(publishedPages),
      trackingSince |-> {doc.timestamp : doc \in firstView},
      pageStats |->
        sortDescending(stats, [i \in 1..Len(stats) |-> stats[i].views])]

\* Writes as well as reads: deletes the rows it found not to be active.
getStatsCleaning ==
  /\ last' = Done("getStats", "returned", Len(pageViews))
  /\ activeSessions' = activeSince(now - SESSION_TIMEOUT_MS)
  /\ UNCHANGED <<now, pageViews, aggregates>>

\* The query: it returns getStatsReturn(now), of which last keeps
\* totalPageViews (allPageViews.length), and writes nothing.
getStats ==
  /\ last' = Done("getStats", "returned", Len(pageViews))
  /\ UNCHANGED <<now, pageViews, activeSessions, aggregates>>

\* ----------------------------------------------------- the raw-markdown function
\* s.trim(): without its leading and trailing whitespace.
RECURSIVE trim(_)
trim(s) ==
  IF s = <<>> THEN s
  ELSE IF Head(s) = " " THEN trim(Tail(s))
  ELSE IF s[Len(s)] = " " THEN trim(SubSeq(s, 1, Len(s) - 1))
  ELSE s

\* s.replace(/^\/+|\/+$/g, ""): without its leading and trailing slashes.
RECURSIVE stripSlashes(_)
stripSlashes(s) ==
  IF s = <<>> THEN s
  ELSE IF Head(s) = "/" THEN stripSlashes(Tail(s))
  ELSE IF s[Len(s)] = "/" THEN stripSlashes(SubSeq(s, 1, Len(s) - 1))
  ELSE s

\* (input || "").trim().replace(/^\/+|\/+$/g, "")
normalizeSlug(input) ==
  stripSlashes(trim(IF input = Absent THEN <<>> ELSE CHOOSE x \in input : TRUE))

DotMd == <<".", "m", "d">>

\* s.endsWith(suffix)
endsWith(s, suffix) ==
  /\ Len(s) >= Len(suffix)
  /\ SubSeq(s, Len(s) - Len(suffix) + 1, Len(s)) = suffix

\* slug.endsWith(".md") ? slug : `${slug}.md`
filenameOf(slug) == IF endsWith(slug, DotMd) THEN slug ELSE slug \o DotMd

\* Returns a body that is only whitespace.
tryReadBlank(p) ==
  IF ~files[p].exists THEN Absent
  ELSE IF ~files[p].readable THEN Absent
  ELSE IF files[p].body = <<>> THEN Absent
  ELSE {files[p].body}

\* The body of the file at p, or null when the file does not exist, when
\* reading it throws, or when it is empty or only whitespace.
tryRead(p) ==
  IF ~files[p].exists THEN Absent
  ELSE IF ~files[p].readable THEN Absent
  ELSE IF files[p].body = <<>> \/ Len(trim(files[p].body)) = 0 THEN Absent
  ELSE {files[p].body}

MissingSlug ==
  <<"m", "i", "s", "s", "i", "n", "g", " ", "s", "l", "u", "g">>

NotFound == <<"n", "o", "t", " ", "f", "o", "u", "n", "d", ":", " ">>

\* The response with its status, its headers and its body.
Respond(statusCode, cacheControl, body) ==
  [statusCode |-> statusCode, contentType |-> "text/plain; charset=utf-8",
   allowOrigin |-> "*", cacheControl |-> cacheControl, body |-> body]

\* A path is the directory under the working directory and the file name
\* under its raw directory.
handler ==
  LET slug == normalizeSlug(request)
      filename == filenameOf(slug)
      first == tryRead(<<"public", filename>>)
      body == IF first # Absent THEN first
              ELSE tryRead(<<"dist", filename>>)
  IN /\ response' =
          IF slug = <<>> THEN Respond(400, "", MissingSlug)
          ELSE IF body = Absent THEN Respond(404, "", NotFound \o filename)
          ELSE Respond(200, "public, max-age=3600", CHOOSE b \in body : TRUE)
     /\ UNCHANGED <<request, files>>

\* The aggregate component is deployed on a backend that already holds page
\* views: its three aggregates start empty, whatever the log contains.
deployAggregates ==
  /\ pageViewsByPath' = EmptyBag
  /\ totalPageViews' = EmptyBag
  /\ uniqueVisitors' = EmptyBag
  /\ last' = Done("deployAggregates", "empty", 0)
  /\ UNCHANGED <<now, pageViews, activeSessions>>

\* ----------------------------------------------------------------- the clock
\* Time passes between two transactions; Date.now() never runs backwards.
Tick(instants) ==
  /\ \E t \in instants : t > now /\ now' = t
  /\ UNCHANGED <<pageViews, activeSessions, aggregates, last>>

\* ------------------------------------------------------------------ observers
\* Notes the time of a recordPageView call for its (sessionId, path).
NoteCall(sessionId, path) ==
  prevCall' = [prevCall EXCEPT ![<<sessionId, path>>] =
                 [called |-> TRUE, at |-> now,
                  stored |-> last'.outcome = "stored"]]

\* Notes whether the call of the pair before this one was suppressed.
NoteSuppressed(sessionId, path) ==
  afterSuppressed' =
    IF /\ prevCall[<<sessionId, path>>].called
       /\ ~prevCall[<<sessionId, path>>].stored
    THEN afterSuppressed \cup {<<sessionId, path>>}
    ELSE afterSuppressed \ {<<sessionId, path>>}

\* Notes the time of a heartbeat call for its session.
NoteBeat(sessionId) ==
  lastBeat' = [lastBeat EXCEPT ![sessionId] = [called |-> TRUE, at |-> now]]

\* Notes a write of the session's row by the heartbeat just executed.
NoteWrite(sessionId, currentPath) ==
  lastWrite' =
    IF last'.outcome \in {"insert", "patch"}
    THEN [lastWrite EXCEPT ![sessionId] =
            [written |-> TRUE, at |-> now, path |-> currentPath,
             repeated |-> /\ lastWrite[sessionId].written
                          /\ lastWrite[sessionId].path = currentPath,
             since |-> now - lastWrite[sessionId].at]]
    ELSE lastWrite

\* ------------------------------------------------------------ the author page
\* The route parameters drawn: none, the empty one, plain ones, one with an
\* escaped space and one with a stray percent sign.
AuthorSlugs ==
  {Absent, {<<>>}, {<<"a">>}, {<<"b">>}, {<<"a", "%", "2", "0", "b">>},
   {<<"%">>}}

\* What localStorage can hold under the key: nothing, a view mode, or
\* anything else.
StoredValues == {Absent, {"list"}, {"cards"}, {"grid"}}

\* The lengths of the array getPostsByAuthor returns.
PostCounts == {0, 1, 2}

\* decodeURIComponent(s): the string with its escapes replaced, or nothing
\* when it throws URIError.  Of the escapes only %20 occurs in AuthorSlugs;
\* a percent sign that starts no escape makes it throw.
RECURSIVE decodeURIComponent(_)
decodeURIComponent(s) ==
  IF s = <<>> THEN {<<>>}
  ELSE IF Head(s) # "%"
  THEN {<<Head(s)>> \o rest : rest \in decodeURIComponent(Tail(s))}
  ELSE IF Len(s) >= 3 /\ s[2] = "2" /\ s[3] = "0"
  THEN {<<" ">> \o rest : rest \in decodeURIComponent(SubSeq(s, 4, Len(s)))}
  ELSE Absent

\* authorSlug ? decodeURIComponent(authorSlug) : ""
decodedSlug(slug) ==
  IF slug = Absent \/ slug = {<<>>} THEN {<<>>}
  ELSE decodeURIComponent(CHOOSE x \in slug : TRUE)

\* Takes whatever is stored for the view mode.
restoredAny(saved) ==
  IF saved # Absent THEN CHOOSE x \in saved : TRUE ELSE "list"

\* The state after the effect that loads the preference: the saved value
\* when it is "list" or "cards", else the initial state "list".
restored(saved) ==
  IF saved = {"list"} \/ saved = {"cards"} THEN CHOOSE x \in saved : TRUE
  ELSE "list"

\* The component is rendered for a route parameter: the query starts without
\* a result and the effect restores the preference; the render throws when
\* the parameter cannot be decoded.
mount(slug) ==
  /\ authorPage = "unmounted"
  /\ authorSlug' = slug
  /\ authorPosts' = Absent
  /\ IF decodedSlug(slug) = Absent
     THEN /\ authorPage' = "crashed"
          /\ viewMode' = "list"
          /\ last' = Done("mount", "threw", 0)
     ELSE /\ authorPage' = "mounted"
          /\ viewMode' = restored(storage)
          /\ last' = Done("mount", "rendered", 0)
  /\ UNCHANGED storage

\* useQuery delivers a result, unless the query is skipped because the
\* decoded slug is empty.
queryResult(count) ==
  /\ authorPage = "mounted"
  /\ decodedSlug(authorSlug) # {<<>>}
  /\ authorPosts' = {count}
  /\ last' = Done("queryResult", "rendered", count)
  /\ UNCHANGED <<authorPage, authorSlug, viewMode, storage>>

\* The toggle button is rendered only when posts is a non-empty array.
toggleShown == authorPage = "mounted" /\ \E n \in authorPosts : n > 0

\* Saves the mode it leaves instead of the one it enters.
toggleViewModeSavesOld ==
  LET newMode == IF viewMode = "list" THEN "cards" ELSE "list" IN
  /\ toggleShown
  /\ viewMode' = newMode
  /\ storage' = {viewMode}
  /\ last' = Done("toggleViewMode", newMode, 0)
  /\ UNCHANGED <<authorPage, authorSlug, authorPosts>>

toggleViewMode ==
  LET newMode == IF viewMode = "list" THEN "cards" ELSE "list" IN
  /\ toggleShown
  /\ viewMode' = newMode
  /\ storage' = {newMode}
  /\ last' = Done("toggleViewMode", newMode, 0)
  /\ UNCHANGED <<authorPage, authorSlug, authorPosts>>

\* The visitor leaves the page; the component's state is gone.
unmount ==
  /\ authorPage # "unmounted"
  /\ authorPage' = "unmounted"
  /\ authorSlug' = Absent
  /\ authorPosts' = Absent
  /\ viewMode' = "list"
  /\ last' = Done("unmount", "", 0)
  /\ UNCHANGED storage

\* The item changes outside the component: another tab of the site, another
\* version of it, or the visitor clearing the storage.
storageChanges(value) ==
  /\ value # storage
  /\ storage' = value
  /\ last' = Done("storageChanges", "", 0)
  /\ UNCHANGED <<authorPage, authorSlug, authorPosts, viewMode>>

\* What the component renders: the "No posts found" block, or the page with
\* the author header and, once the query has a result, the list of posts.
rendered ==
  IF \E n \in authorPosts : n = 0 THEN "No posts found"
  ELSE IF authorPosts = Absent THEN "header"
  ELSE "header and posts"

InitAuthorPage ==
  /\ authorPage = "unmounted"
  /\ authorSlug = Absent
  /\ authorPosts = Absent
  /\ viewMode = "list"
  /\ storage = Absent

\* ------------------------------------------------------------ specifications
Init ==
  /\ now = 0
  /\ pageViews = <<>>
  /\ activeSessions = <<>>
  /\ pageViewsByPath = EmptyBag
  /\ totalPageViews = EmptyBag
  /\ uniqueVisitors = EmptyBag
  /\ last = Done("init", "", 0)
  /\ prevCall = [k \in Sessions \X Paths |->
                  [called |-> FALSE, at |-> 0, stored |-> FALSE]]
  /\ afterSuppressed = {}
  /\ lastWrite = [s \in Sessions |->
                   [written |-> FALSE, at |-> 0, path |-> <<>>,
                    repeated |-> FALSE, since |-> 0]]
  /\ lastBeat = [s \in Sessions |-> [called |-> FALSE, at |-> 0]]
  /\ posts = <<[slug |-> <<"a">>, title |-> <<"A">>, published |-> TRUE]>>
  /\ pages = <<[slug |-> <<"b">>, title |-> <<"B">>, published |-> TRUE]>>
  /\ request = Absent
  /\ files = NoFiles
  /\ response = NoResponse
  /\ InitAuthorPage

\* The whole analytics backend.
Next ==
  \/ Tick(FarTimes) /\ UNCHANGED <<observers, site>>
  \/ \E p \in Paths, t \in PageTypes, s \in Sessions :
       /\ recordPageView(p, t, s)
       /\ Len(pageViews') <= MaxEvents
       /\ UNCHANGED <<observers, site>>
  \/ \E s \in Sessions, p \in Paths :
       heartbeat(s, p) /\ UNCHANGED <<observers, site>>
  \/ cleanupStaleSessions /\ UNCHANGED <<observers, site>>
  \/ backfillAggregates /\ UNCHANGED <<observers, site>>
  \/ getStats /\ UNCHANGED <<observers, site>>

Spec == Init /\ [][Next]_vars

\* The page-view side alone.
NextViews ==
  \/ Tick(Times) /\ UNCHANGED <<observers, site>>
  \/ \E p \in Paths, t \in PageTypes, s \in Sessions :
       /\ recordPageView(p, t, s)
       /\ Len(pageViews') <= MaxEvents
       /\ UNCHANGED <<observers, site>>
  \/ backfillAggregates /\ UNCHANGED <<observers, site>>
  \/ getStats /\ UNCHANGED <<observers, site>>

SpecViews == Init /\ [][NextViews]_vars

\* The page-view side with the call observer.
NextCalls ==
  \/ Tick(CoarseTimes) /\ UNCHANGED <<observers, site>>
  \/ \E p \in Paths, t \in PageTypes, s \in Sessions :
       /\ recordPageView(p, t, s)
       /\ Len(pageViews') <= MaxEvents
       /\ NoteCall(s, p)
       /\ UNCHANGED <<afterSuppressed, lastWrite, lastBeat, site>>
  \/ backfillAggregates /\ UNCHANGED <<observers, site>>

SpecCalls == Init /\ [][NextCalls]_vars

\* The page-view side on a backend whose aggregate component is deployed
\* after page views were recorded.
NextBackfill ==
  \/ Tick(CoarseTimes) /\ UNCHANGED <<observers, site>>
  \/ \E p \in Paths, t \in PageTypes, s \in Sessions :
       /\ recordPageView(p, t, s)
       /\ Len(pageViews') <= MaxEvents
       /\ UNCHANGED <<observers, site>>
  \/ deployAggregates /\ UNCHANGED <<observers, site>>
  \/ backfillAggregates /\ UNCHANGED <<observers, site>>

SpecBackfill == Init /\ [][NextBackfill]_vars

\* The instants of the worked example of the deduplication: a first view, one
\* ten minutes later and one 2000 seconds after the first.
ExampleTimes == {0, 600000, 2000000}

NextExample ==
  \/ Tick(ExampleTimes) /\ UNCHANGED <<observers, site>>
  \/ \E p \in Paths, t \in PageTypes, s \in Sessions :
       /\ recordPageView(p, t, s)
       /\ Len(pageViews') <= MaxEvents
       /\ NoteCall(s, p)
       /\ NoteSuppressed(s, p)
       /\ UNCHANGED <<lastWrite, lastBeat, site>>

SpecExample == Init /\ [][NextExample]_vars

\* The paths the statistics page classifies: the home page under both its
\* names, the statistics page, a path with and without its leading slash, the
\* word stats without a slash, and a path no content answers to.
ViewedPaths ==
  {<<"/">>, <<>>, StatsPath, <<"/", "a">>, <<"a">>,
   <<"s", "t", "a", "t", "s">>, <<"/", "c">>}

ContentSlugs == {<<"a">>, <<"s", "t", "a", "t", "s">>}

\* Documents of the posts table, published or not.
PostDocs ==
  {[slug |-> sl, title |-> <<"p">> \o sl, published |-> b] :
     sl \in ContentSlugs, b \in BOOLEAN}

\* Documents of the pages table.
PageDocs ==
  {[slug |-> sl, title |-> <<"q">> \o sl, published |-> b] :
     sl \in ContentSlugs, b \in BOOLEAN}

\* The statistics query over every small content: up to two posts and up to
\* one page.
InitClassify ==
  /\ now = 0
  /\ pageViews = <<>>
  /\ activeSessions = <<>>
  /\ pageViewsByPath = EmptyBag
  /\ totalPageViews = EmptyBag
  /\ uniqueVisitors = EmptyBag
  /\ last = Done("init", "", 0)
  /\ prevCall = [k \in Sessions \X Paths |->
                  [called |-> FALSE, at |-> 0, stored |-> FALSE]]
  /\ afterSuppressed = {}
  /\ lastWrite = [s \in Sessions |->
                   [written |-> FALSE, at |-> 0, path |-> <<>>,
                    repeated |-> FALSE, since |-> 0]]
  /\ lastBeat = [s \in Sessions |-> [called |-> FALSE, at |-> 0]]
  /\ posts \in {<<>>} \cup {<<d>> : d \in PostDocs}
                \cup {<<d, e>> : d \in PostDocs, e \in PostDocs}
  /\ pages \in {<<>>} \cup {<<d>> : d \in PageDocs}
  /\ request = Absent
  /\ files = NoFiles
  /\ response = NoResponse
  /\ InitAuthorPage

NextClassify ==
  \/ \E p \in ViewedPaths, t \in PageTypes :
       /\ recordPageView(p, t, "s1")
       /\ Len(pageViews') <= MaxEvents
       /\ UNCHANGED <<observers, site>>
  \/ getStats /\ UNCHANGED <<observers, site>>

SpecClassify == InitClassify /\ [][NextClassify]_vars

\* Sequences over S of length at most n.
SeqsUpTo(S, n) == UNION {[1..k -> S] : k \in 0..n}

\* What a path can hold: nothing, something that cannot be read, an empty
\* file, a file of whitespace, or markdown that names its directory.
FileStates(dir) ==
  {[exists |-> FALSE, readable |-> FALSE, body |-> <<>>],
   [exists |-> TRUE, readable |-> FALSE, body |-> <<>>],
   [exists |-> TRUE, readable |-> TRUE, body |-> <<>>],
   [exists |-> TRUE, readable |-> TRUE, body |-> <<" ">>],
   [exists |-> TRUE, readable |-> TRUE, body |-> <<"#", " ", dir>>]}

\* The file names a request can be about: the one the handler reads and the
\* slug with .md appended.
NamesOf(input) ==
  IF normalizeSlug(input) = <<>> THEN {}
  ELSE {filenameOf(normalizeSlug(input)), normalizeSlug(input) \o DotMd}

\* The raw function: a request, absent or any short slug, and any state of
\* the files it can be about.
InitRaw ==
  /\ now = 0
  /\ pageViews = <<>>
  /\ activeSessions = <<>>
  /\ pageViewsByPath = EmptyBag
  /\ totalPageViews = EmptyBag
  /\ uniqueVisitors = EmptyBag
  /\ last = Done("init", "", 0)
  /\ prevCall = [k \in Sessions \X Paths |->
                  [called |-> FALSE, at |-> 0, stored |-> FALSE]]
  /\ afterSuppressed = {}
  /\ lastWrite = [s \in Sessions |->
                   [written |-> FALSE, at |-> 0, path |-> <<>>,
                    repeated |-> FALSE, since |-> 0]]
  /\ lastBeat = [s \in Sessions |-> [called |-> FALSE, at |-> 0]]
  /\ posts = <<>>
  /\ pages = <<>>
  /\ request \in {Absent} \cup {{x} : x \in SeqsUpTo(SlugChars, MaxSlugLen)}
  /\ \E public \in [NamesOf(request) -> FileStates("public")],
        dist \in [NamesOf(request) -> FileStates("dist")] :
       files = [p \in Dirs \X NamesOf(request) |->
                  IF p[1] = "public" THEN public[p[2]] ELSE dist[p[2]]]
  /\ response = NoResponse
  /\ InitAuthorPage

NextRaw ==
  /\ handler
  /\ UNCHANGED <<now, pageViews, activeSessions, aggregates, last, observers,
                 posts, pages, authorPage, authorSlug, authorPosts, viewMode,
                 storage>>

SpecRaw == InitRaw /\ [][NextRaw]_vars

\* Instants of a session that heartbeats: a write, calls just under and exactly
\* HEARTBEAT_DEDUP_MS later, the instant SESSION_TIMEOUT_MS - HEARTBEAT_DEDUP_MS
\* after the first of them, and one beyond.
BeatTimes == {0, 9999, 10000, 119999, 130000}

\* The active-session side with the observer of heartbeat calls.
NextBeats ==
  \/ Tick(BeatTimes) /\ UNCHANGED <<observers, site>>
  \/ \E s \in Sessions, p \in Paths :
       /\ heartbeat(s, p)
       /\ NoteBeat(s)
       /\ UNCHANGED <<prevCall, afterSuppressed, lastWrite, site>>
  \/ cleanupStaleSessions /\ UNCHANGED <<observers, site>>
  \/ getStats /\ UNCHANGED <<observers, site>>

SpecBeats == Init /\ [][NextBeats]_vars

\* The author page alone.
NextAuthor ==
  \/ \E slug \in AuthorSlugs : mount(slug) /\ UNCHANGED <<backend, observers>>
  \/ \E n \in PostCounts : queryResult(n) /\ UNCHANGED <<backend, observers>>
  \/ toggleViewMode /\ UNCHANGED <<backend, observers>>
  \/ unmount /\ UNCHANGED <<backend, observers>>
  \/ \E v \in StoredValues :
       storageChanges(v) /\ UNCHANGED <<backend, observers>>

SpecAuthor == Init /\ [][NextAuthor]_vars

\* The active-session side alone, with the write observer.
NextSessions ==
  \/ Tick(Times) /\ UNCHANGED <<observers, site>>
  \/ \E s \in Sessions, p \in Paths :
       /\ heartbeat(s, p)
       /\ NoteWrite(s, p)
       /\ UNCHANGED <<prevCall, afterSuppressed, lastBeat, site>>
  \/ cleanupStaleSessions /\ UNCHANGED <<observers, site>>
  \/ getStats /\ UNCHANGED <<observers, site>>

SpecSessions == Init /\ [][NextSessions]_vars

\* The session side with the scheduler's guarantees: time keeps passing and
\* the cron job keeps running cleanupStaleSessions.
FairSessions ==
  /\ SpecSessions
  /\ WF_vars(Tick(Times) /\ UNCHANGED <<observers, site>>)
  /\ WF_vars(cleanupStaleSessions /\ UNCHANGED <<observers, site>>)

\* ================================================================ properties
Abs(x) == IF x < 0 THEN -x ELSE x

SamePair(i, j) ==
  /\ pageViews[i].sessionId = pageViews[j].sessionId
  /\ pageViews[i].path = pageViews[j].path

\* Timestamps of the stored events of (sessionId, path).
TimestampsOf(sessionId, path) ==
  {pageViews[i].timestamp : i \in bySessionPath(sessionId, path)}

\* The pair's most recent stored event is less than 30 minutes old.
HasFreshEvent(sessionId, path) ==
  /\ TimestampsOf(sessionId, path) # {}
  /\ now - SetMax(TimestampsOf(sessionId, path)) < DEDUP_WINDOW_MS

\* Events of the pair inside the window that ends now.
InWindow(sessionId, path) ==
  {i \in bySessionPath(sessionId, path) :
     now - pageViews[i].timestamp < DEDUP_WINDOW_MS}

\* Number of times the event with this id is counted in an aggregate.
CountOf(aggregate, id) ==
  LET items == {x \in BagToSet(aggregate) : x.id = id}
  IN BagCardinality([x \in items |-> CopiesIn(x, aggregate)])

\* Number of times a session is counted in uniqueVisitors.
VisitorCount(sessionId) ==
  LET items == {x \in BagToSet(uniqueVisitors) : x.key = sessionId}
  IN BagCardinality([x \in items |-> CopiesIn(x, uniqueVisitors)])

EventsOfSession(sessionId) ==
  {i \in 1..Len(pageViews) : pageViews[i].sessionId = sessionId}

\* C1: for every (sessionId, path), any two stored page-view events have
\* timestamps at least DEDUP_WINDOW_MS apart.
C1_NoTwoWithinWindow ==
  \A i, j \in 1..Len(pageViews) :
    (i < j /\ SamePair(i, j)) =>
      Abs(pageViews[j].timestamp - pageViews[i].timestamp) >= DEDUP_WINDOW_MS

\* Two events of one pair are stored, exactly one window apart.
C1_Witness ==
  \E i, j \in 1..Len(pageViews) :
    /\ i < j /\ SamePair(i, j)
    /\ pageViews[j].timestamp - pageViews[i].timestamp = DEDUP_WINDOW_MS

\* C2: a recordPageView call for a pair whose most recent stored event is less
\* than 30 minutes old changes nothing: the log, the three aggregates and the
\* active-session table stay as they are, and the window still holds exactly
\* one event of the pair.  A replay of a committed call is such a call.
C2_DuplicateIsNoOp ==
  [][\A p \in Paths, t \in PageTypes, s \in Sessions :
       (recordPageView(p, t, s) /\ HasFreshEvent(s, p)) =>
         /\ pageViews' = pageViews
         /\ aggregates' = aggregates
         /\ activeSessions' = activeSessions
         /\ Cardinality(InWindow(s, p)') = 1]_vars

\* A call was suppressed while sessions were active and a view was stored.
C2_Witness ==
  /\ last.op = "recordPageView" /\ last.outcome = "duplicate"
  /\ activeSessions # <<>>
  /\ \E s \in Sessions, p \in Paths : Cardinality(InWindow(s, p)) = 1

\* The call steps of a pair that come more than 30 minutes after the pair's
\* previous call.
LateCall(p, t, s) ==
  /\ recordPageView(p, t, s)
  /\ prevCall[<<s, p>>].called
  /\ now - prevCall[<<s, p>>].at > DEDUP_WINDOW_MS

StoresNow(p, t, s) ==
  pageViews' = Append(pageViews, [path |-> p, pageType |-> t,
                                  sessionId |-> s, timestamp |-> now])

\* C3 as stated: of two calls for one pair more than 30 minutes apart with no
\* call for the pair in between, both store an event, so the pair has two.
C3_BothStore ==
  [][\A p \in Paths, t \in PageTypes, s \in Sessions :
       LateCall(p, t, s) =>
         /\ prevCall[<<s, p>>].stored
         /\ StoresNow(p, t, s)
         /\ Cardinality(bySessionPath(s, p)') >= 2]_vars

\* C3 amended: the later of the two calls always stores an event; the earlier
\* one stored an event unless an event of the pair less than 30 minutes older
\* suppressed it; either way the pair then has at least two events.
C3_SecondStores ==
  [][\A p \in Paths, t \in PageTypes, s \in Sessions :
       LateCall(p, t, s) =>
         /\ StoresNow(p, t, s)
         /\ Cardinality(bySessionPath(s, p)') >= 2
         /\ \/ prevCall[<<s, p>>].stored
            \/ \E ts \in TimestampsOf(s, p) :
                 /\ ts <= prevCall[<<s, p>>].at
                 /\ prevCall[<<s, p>>].at - ts < DEDUP_WINDOW_MS]_vars

\* The call just executed stored the second event of a pair, more than a
\* window after the first.
C3_Witness ==
  /\ last.op = "recordPageView" /\ last.outcome = "stored"
  /\ \E s \in Sessions, p \in Paths :
       /\ prevCall[<<s, p>>] = [called |-> TRUE, at |-> now, stored |-> TRUE]
       /\ Cardinality(bySessionPath(s, p)) = 2
       /\ \E ts \in TimestampsOf(s, p) : now - ts > DEDUP_WINDOW_MS

\* C4: a session is counted in the unique-visitors aggregate exactly once as
\* soon as it has a stored event, by the item of its first event, and not at
\* all before.
C4_UniqueOncePerSession ==
  \A s \in Sessions :
    IF EventsOfSession(s) = {} THEN VisitorCount(s) = 0
    ELSE /\ VisitorCount(s) = 1
         /\ \A x \in BagToSet(uniqueVisitors) :
              x.key = s => x.id = SetMin(EventsOfSession(s))

\* A session has viewed two paths and is counted once.
C4_Witness ==
  \E s \in Sessions :
    /\ \E i, j \in EventsOfSession(s) : pageViews[i].path # pageViews[j].path
    /\ VisitorCount(s) = 1

\* C5: every stored event is counted at most once in each of the three
\* aggregates, whatever recordPageView calls and backfillAggregates runs
\* have happened.
C5_CountedAtMostOnce ==
  \A i \in 1..Len(pageViews) :
    /\ CountOf(pageViewsByPath, i) <= 1
    /\ CountOf(totalPageViews, i) <= 1
    /\ CountOf(uniqueVisitors, i) <= 1

\* A backfill has run over a log that recordPageView had already counted.
C5_Witness ==
  /\ last.op = "backfillAggregates"
  /\ Len(pageViews) >= 2
  /\ BagCardinality(totalPageViews) = Len(pageViews)
  /\ BagCardinality(pageViewsByPath) = Len(pageViews)

\* Number of rows of the table equal to row.
Copies(table, row) ==
  Cardinality({i \in 1..Len(table) : table[i] = row})

RowsOf(table) == {table[i] : i \in 1..Len(table)}

\* C6: at most one ActiveSession row exists per sessionId, under any
\* interleaving of heartbeat transactions and cleanupStaleSessions runs.
C6_OneRowPerSession ==
  \A s \in Sessions : Cardinality(bySessionId(s)) <= 1

\* Both sessions have a row and one of them has just been patched.
C6_Witness ==
  /\ last.op = "heartbeat" /\ last.outcome = "patch"
  /\ \A s \in Sessions : Cardinality(bySessionId(s)) = 1

\* C7: a heartbeat for a session without a row inserts the row
\* (sessionId, currentPath, now); for a session whose row has the same
\* currentPath and a lastSeen less than 10 seconds old it writes nothing;
\* otherwise (10 seconds or more, or another path) it sets the row's
\* currentPath to the argument and its lastSeen to now.  No other row changes.
C7_HeartbeatCases ==
  [][\A s \in Sessions, p \in Paths :
       heartbeat(s, p) =>
         LET fresh == [sessionId |-> s, currentPath |-> p, lastSeen |-> now]
         IN IF bySessionId(s) = {}
            THEN activeSessions' = Append(activeSessions, fresh)
            ELSE /\ Len(activeSessions') = Len(activeSessions)
                 /\ \A i \in 1..Len(activeSessions) :
                      LET row == activeSessions[i] IN
                      IF row.sessionId # s THEN activeSessions'[i] = row
                      ELSE IF /\ row.currentPath = p
                              /\ now - row.lastSeen < HEARTBEAT_DEDUP_MS
                           THEN activeSessions'[i] = row
                           ELSE activeSessions'[i] = fresh]_vars

\* A heartbeat was skipped and the row it left alone is 9999 ms old.
C7_Witness ==
  /\ last.op = "heartbeat" /\ last.outcome = "skip"
  /\ \E i \in 1..Len(activeSessions) :
       now - activeSessions[i].lastSeen = HEARTBEAT_DEDUP_MS - 1

\* The heartbeat steps of a session that write its row (insert or patch)
\* after an earlier write of it.
Rewrite(s, p) ==
  /\ heartbeat(s, p)
  /\ last'.outcome \in {"insert", "patch"}
  /\ lastWrite[s].written

\* C8 as stated: whatever the paths carried, two writes of a session's row are
\* at least 10 seconds apart.
C8_OneWritePerTenSeconds ==
  [][\A s \in Sessions, p \in Paths :
       Rewrite(s, p) => now - lastWrite[s].at >= HEARTBEAT_DEDUP_MS]_vars

\* C8 amended: a write of a session's row that carries the same currentPath as
\* the previous write of it comes at least 10 seconds after that write; only a
\* write that changes currentPath may come sooner.
C8_SamePathWritesTenSecondsApart ==
  [][\A s \in Sessions, p \in Paths :
       (Rewrite(s, p) /\ lastWrite[s].path = p) =>
         now - lastWrite[s].at >= HEARTBEAT_DEDUP_MS]_vars

\* A row has been patched with the path it already had, exactly 10 seconds
\* after its previous write.
C8_Witness ==
  /\ last.op = "heartbeat" /\ last.outcome = "patch"
  /\ \E s \in Sessions :
       /\ lastWrite[s].at = now
       /\ lastWrite[s].repeated
       /\ lastWrite[s].since = HEARTBEAT_DEDUP_MS

\* C9: a cleanupStaleSessions run at time now deletes every row with
\* lastSeen < now - SESSION_TIMEOUT_MS, keeps every other row, and returns the
\* number of rows it deleted.
C9_CleanupAllAndOnly ==
  [][cleanupStaleSessions =>
       /\ \A row \in RowsOf(activeSessions) :
            Copies(activeSessions', row) =
              IF now - row.lastSeen > SESSION_TIMEOUT_MS
              THEN 0 ELSE Copies(activeSessions, row)
       /\ RowsOf(activeSessions') \subseteq RowsOf(activeSessions)
       /\ last'.count = Len(activeSessions) - Len(activeSessions')]_vars

\* A cleanup deleted one row and kept the row that is exactly 2 minutes old.
C9_Witness ==
  /\ last.op = "cleanupStaleSessions" /\ last.count = 1
  /\ Len(activeSessions) = 1
  /\ now - activeSessions[1].lastSeen = SESSION_TIMEOUT_MS

\* The session has a row last seen at t.
RowAt(s, t) ==
  \E i \in bySessionId(s) : activeSessions[i].lastSeen = t

\* The instants after which the clock can still pass the session timeout.
TimesWithRoom ==
  {t \in Times : \E u \in Times : u - t > SESSION_TIMEOUT_MS}

\* C10: when time keeps passing and cleanupStaleSessions keeps being run, a
\* row that no heartbeat refreshes is eventually deleted, and no row older
\* than SESSION_TIMEOUT_MS survives a cleanup run.
C10_StaleRowEventuallyDeleted ==
  /\ \A s \in Sessions, t \in TimesWithRoom :
       RowAt(s, t) ~> ~RowAt(s, t)
  /\ [][cleanupStaleSessions =>
          \A i \in 1..Len(activeSessions') :
            now - activeSessions'[i].lastSeen <= SESSION_TIMEOUT_MS]_vars

\* A cleanup has emptied a table that held rows.
C10_Witness ==
  /\ last.op = "cleanupStaleSessions" /\ last.count >= 1
  /\ activeSessions = <<>>

\* C11: backfillAggregates is idempotent: on the log it has just processed, a
\* second run leaves each of the three aggregates as the first run left it,
\* whatever the aggregates held before the first run.
C11_BackfillIdempotent ==
  [][backfillAggregates =>
       LET again == backfillFrom(1, pageViewsByPath', totalPageViews',
                                 uniqueVisitors', {}, 0)
       IN /\ again[1] = pageViewsByPath'
          /\ again[2] = totalPageViews'
          /\ again[3] = uniqueVisitors']_vars

\* A backfill has processed a log of several events of which the aggregates
\* held nothing.
C11_Witness ==
  /\ last.op = "backfillAggregates"
  /\ last.count >= 2
  /\ BagCardinality(totalPageViews) = Len(pageViews)
  /\ BagCardinality(uniqueVisitors) = 2

\* C12: the page-view log is append-only: every step of every operation
\* keeps each event that was present, at its position and with every field
\* unchanged.
C12_AppendOnly ==
  [][/\ Len(pageViews') >= Len(pageViews)
     /\ \A i \in 1..Len(pageViews) : pageViews'[i] = pageViews[i]]_vars

\* Stale rows have been deleted while the log holds events.
C12_Witness ==
  /\ last.op = "cleanupStaleSessions"
  /\ last.count >= 1
  /\ Len(pageViews) >= 2

\* C13: when the latest stored event of a pair is ten minutes old a view of
\* the pair stores nothing, and when it is 2000 seconds old (33 minutes) the
\* view stores a second event and the session is still counted as one
\* visitor, whether or not a suppressed view came in between.
C13_WindowFromLatestStored ==
  [][\A p \in Paths, t \in PageTypes, s \in Sessions :
       (recordPageView(p, t, s) /\ TimestampsOf(s, p) # {}) =>
         LET t0 == SetMax(TimestampsOf(s, p))
         IN /\ (now - t0 = 600000) =>
                 UNCHANGED <<pageViews, aggregates>>
            /\ (now - t0 = 2000000) =>
                 /\ StoresNow(p, t, s)
                 /\ VisitorCount(s)' = 1
                 /\ UNCHANGED uniqueVisitors]_vars

\* The example has run: the pair was viewed at 0, its view at 600000 was
\* suppressed, and the view at 2000000 has just stored the second event.
C13_Witness ==
  /\ now = 2000000
  /\ TimestampsOf("s1", <<"/", "a">>) = {0, 2000000}
  /\ last.outcome = "stored"
  /\ prevCall[<<"s1", <<"/", "a">>>>].stored
  /\ <<"s1", <<"/", "a">>>> \in afterSuppressed
  /\ VisitorCount("s1") = 1

\* C14: a view of (s, p) is stored whenever no event of (s, p) lies within
\* the dedup window, however recent the session's events of other paths are.
C14_OtherPathsDoNotSuppress ==
  [][\A p \in Paths, t \in PageTypes, s \in Sessions :
       (/\ recordPageView(p, t, s)
        /\ \A i \in 1..Len(pageViews) :
             (pageViews[i].sessionId = s /\ pageViews[i].path = p) =>
               now - pageViews[i].timestamp >= DEDUP_WINDOW_MS)
       => StoresNow(p, t, s)]_vars

\* One session has two events of different paths less than the window apart.
C14_Witness ==
  \E i, j \in 1..Len(pageViews) :
    /\ i < j
    /\ pageViews[i].sessionId = pageViews[j].sessionId
    /\ pageViews[i].path # pageViews[j].path
    /\ pageViews[j].timestamp - pageViews[i].timestamp < DEDUP_WINDOW_MS

\* The sum of a sequence of numbers.
RECURSIVE Sum(_)
Sum(numbers) ==
  IF numbers = <<>> THEN 0 ELSE Head(numbers) + Sum(Tail(numbers))

\* Positions of the rows seen less than SESSION_TIMEOUT_MS ago.
SeenLately ==
  {i \in 1..Len(activeSessions) :
     now - activeSessions[i].lastSeen < SESSION_TIMEOUT_MS}

\* Positions of the entries of a list that carry the path.
EntriesOf(list, path) == {i \in 1..Len(list) : list[i].path = path}

\* C15: getStats reports as activeVisitors the number of rows with
\* lastSeen > now - SESSION_TIMEOUT_MS, deleted or not, and activeByPath has
\* one entry per currentPath of those rows with the number of them, so its
\* counts sum to activeVisitors.
C15_ActiveVisitors ==
  LET r == getStatsReturn(now)
      rowsAt(p) == {i \in SeenLately : activeSessions[i].currentPath = p}
  IN /\ r.activeVisitors = Cardinality(SeenLately)
     /\ \A i \in 1..Len(r.activeByPath) : r.activeByPath[i].path \in Paths
     /\ \A p \in Paths :
          IF rowsAt(p) = {} THEN EntriesOf(r.activeByPath, p) = {}
          ELSE \E i \in 1..Len(r.activeByPath) :
                 /\ EntriesOf(r.activeByPath, p) = {i}
                 /\ r.activeByPath[i].count = Cardinality(rowsAt(p))
     /\ Sum([i \in 1..Len(r.activeByPath) |-> r.activeByPath[i].count])
          = r.activeVisitors

\* getStats has run while the table held an active row and a row seen
\* exactly SESSION_TIMEOUT_MS ago that no cleanup has deleted.
C15_Witness ==
  /\ last.op = "getStats"
  /\ getStatsReturn(now).activeVisitors = 1
  /\ \E i \in 1..Len(activeSessions) :
       now - activeSessions[i].lastSeen = SESSION_TIMEOUT_MS

\* C16: getStats returns as trackingSince the least timestamp of the stored
\* events, and null when there is none.
C16_TrackingSince ==
  getStatsReturn(now).trackingSince =
    IF pageViews = <<>> THEN Absent
    ELSE {SetMin({pageViews[i].timestamp : i \in 1..Len(pageViews)})}

\* getStats has run on a log whose events were stored at different times.
C16_Witness ==
  /\ last.op = "getStats"
  /\ Len(pageViews) >= 2
  /\ pageViews[1].timestamp < pageViews[Len(pageViews)].timestamp

\* C17: getStats is read-only: it leaves the event log, the table of active
\* sessions and the three aggregates as they were.
C17_GetStatsReadOnly ==
  [][getStats => UNCHANGED <<pageViews, activeSessions, aggregates>>]_vars

\* getStats has run while the log held events and the table a stale row.
C17_Witness ==
  /\ last.op = "getStats"
  /\ pageViews # <<>>
  /\ staleSessions(now) # {}

\* C18: pageStats has one entry for each path with a stored event and none
\* for any other, each with the number of the path's events as views, in
\* order of non-increasing views.
C18_PageStats ==
  LET ps == getStatsReturn(now).pageStats
      eventsAt(p) == {i \in 1..Len(pageViews) : pageViews[i].path = p}
  IN /\ \A i \in 1..Len(ps) : ps[i].path \in Paths
     /\ \A p \in Paths :
          IF eventsAt(p) = {} THEN EntriesOf(ps, p) = {}
          ELSE \E i \in 1..Len(ps) :
                 /\ EntriesOf(ps, p) = {i}
                 /\ ps[i].views = Cardinality(eventsAt(p))
     /\ \A i, j \in 1..Len(ps) : i < j => ps[i].views >= ps[j].views

\* getStats has run on a log whose first path has fewer events than another.
C18_Witness ==
  /\ last.op = "getStats"
  /\ \E i \in 1..Len(pageViews) :
       Cardinality({j \in 1..Len(pageViews) :
                      pageViews[j].path = pageViews[1].path})
         < Cardinality({j \in 1..Len(pageViews) :
                          pageViews[j].path = pageViews[i].path})

\* The path without its leading slash.
Unslashed(path) ==
  IF path # <<>> /\ Head(path) = "/" THEN SubSeq(path, 2, Len(path))
  ELSE path

\* A published document of the table has the slug.
Publishes(table, slug) ==
  \E i \in 1..Len(table) : table[i].published /\ table[i].slug = slug

\* C19: getStats classifies a path as home when it is "/" or "", else as
\* stats when it is "/stats", else as blog when a published post has the
\* path without its leading slash as slug, else as page when a published
\* page has, else as other with the path as title.
C19_Classification ==
  LET ps == getStatsReturn(now).pageStats IN
  \A i \in 1..Len(ps) :
    LET path == ps[i].path IN
    /\ ps[i].pageType =
         IF path = <<"/">> \/ path = <<>> THEN "home"
         ELSE IF path = <<"/", "s", "t", "a", "t", "s">> THEN "stats"
         ELSE IF Publishes(posts, Unslashed(path)) THEN "blog"
         ELSE IF Publishes(pages, Unslashed(path)) THEN "page"
         ELSE "other"
    /\ ps[i].pageType = "other" => ps[i].title = path

\* getStats has classified "/stats" as stats and another path as blog while
\* a published post has the slug stats.
C19_Witness ==
  /\ last.op = "getStats"
  /\ Publishes(posts, <<"s", "t", "a", "t", "s">>)
  /\ \E i, j \in 1..Len(getStatsReturn(now).pageStats) :
       /\ getStatsReturn(now).pageStats[i].pageType = "stats"
       /\ getStatsReturn(now).pageStats[j].pageType = "blog"

\* The number of leading characters of s that are c.
Leading(s, c) ==
  SetMax({k \in 0..Len(s) : \A i \in 1..k : s[i] = c})

\* The number of trailing characters of s that are c.
Trailing(s, c) ==
  SetMax({k \in 0..Len(s) : \A i \in (Len(s) - k + 1)..Len(s) : s[i] = c})

\* s without its leading and trailing characters c.
Without(s, c) ==
  IF Leading(s, c) = Len(s) THEN <<>>
  ELSE SubSeq(s, Leading(s, c) + 1, Len(s) - Trailing(s, c))

\* The slug of the request: its parameter trimmed of whitespace, then of
\* leading and trailing slashes; empty when the parameter is absent.
RequestedSlug ==
  IF request = Absent THEN <<>>
  ELSE Without(Without(CHOOSE x \in request : TRUE, " "), "/")

\* The file exists, can be read and is not blank.
Servable(p) ==
  /\ files[p].exists
  /\ files[p].readable
  /\ \E i \in 1..Len(files[p].body) : files[p].body[i] # " "

\* The response the handler owes a request whose file is called name.
Serves(name) ==
  IF RequestedSlug = <<>>
  THEN response.statusCode = 400 /\ response.body = MissingSlug
  ELSE IF Servable(<<"public", name>>)
  THEN /\ response.statusCode = 200
       /\ response.body = files[<<"public", name>>].body
  ELSE IF Servable(<<"dist", name>>)
  THEN /\ response.statusCode = 200
       /\ response.body = files[<<"dist", name>>].body
  ELSE response.statusCode = 404

\* C20 as stated: the handler answers 400 "missing slug" to an absent or
\* empty slug, else 200 with the body of the first servable file of
\* public/raw/<slug>.md and dist/raw/<slug>.md, else 404.
C20_ServesSlugDotMd ==
  response # NoResponse => Serves(RequestedSlug \o DotMd)

\* C20: the handler answers 400 "missing slug" to an absent or empty slug,
\* else 200 with the body of the first servable file of public/raw/<name>
\* and dist/raw/<name>, else 404, where <name> is the slug when the slug ends
\* in .md and <slug>.md when it does not.  It always answers.
C20_ServesFilename ==
  response # NoResponse =>
    Serves(IF endsWith(RequestedSlug, DotMd) THEN RequestedSlug
           ELSE RequestedSlug \o DotMd)

\* The handler has served the file of dist/raw because the one of public/raw
\* is blank, to a request whose slug was wrapped in whitespace and slashes.
C20_Witness ==
  /\ response.statusCode = 200
  /\ request # Absent
  /\ RequestedSlug # CHOOSE x \in request : TRUE
  /\ \E name \in NamesOf(request) :
       /\ files[<<"public", name>>].body = <<" ">>
       /\ response.body = files[<<"dist", name>>].body

\* C21: each toggle flips viewMode between "list" and "cards" and leaves the
\* new viewMode in localStorage, and a mount restores a stored "list" or
\* "cards" and starts from "list" on anything else.
C21_ToggleAndRestore ==
  [][/\ toggleViewMode =>
          /\ viewMode' # viewMode
          /\ viewMode' \in {"list", "cards"}
          /\ storage' = {viewMode'}
     /\ \A slug \in AuthorSlugs :
          (mount(slug) /\ authorPage' = "mounted") =>
            viewMode' = IF storage = {"cards"} THEN "cards" ELSE "list"]_vars

\* A toggle has brought the page back to "list", which is now the stored
\* value.
C21_Witness ==
  /\ last.op = "toggleViewMode"
  /\ viewMode = "list"
  /\ storage = {"list"}

IdsIn(aggregate, namespace) ==
  {x.id : x \in {y \in BagToSet(aggregate) : y.namespace = namespace}}

\* C23: the maintained aggregates agree with what getStats counts by a full
\* scan: the total aggregate holds the stored events and as many items as
\* totalPageViews, the by-path aggregate holds under each path that path's
\* events and as many items as the views of its pageStats entry, and the
\* unique-visitors aggregate holds one event per session and as many items
\* as uniqueVisitors.
C23_AggregatesAgreeWithScan ==
  LET r == getStatsReturn(now) IN
  /\ {x.id : x \in BagToSet(totalPageViews)} = 1..Len(pageViews)
  /\ BagCardinality(totalPageViews) = r.totalPageViews
  /\ BagCardinality(pageViewsByPath) = Len(pageViews)
  /\ \A i \in 1..Len(r.pageStats) :
       /\ IdsIn(pageViewsByPath, r.pageStats[i].path) =
            {j \in 1..Len(pageViews) : pageViews[j].path = r.pageStats[i].path}
       /\ Cardinality(IdsIn(pageViewsByPath, r.pageStats[i].path)) =
            r.pageStats[i].views
  /\ BagCardinality(uniqueVisitors) = r.uniqueVisitors
  /\ {x.key : x \in BagToSet(uniqueVisitors)} =
       {pageViews[j].sessionId : j \in 1..Len(pageViews)}
  /\ \A x \in BagToSet(uniqueVisitors) :
       pageViews[x.id].sessionId = x.key

\* getStats has run on a log in which two sessions share a path and one
\* session has viewed two.
C23_Witness ==
  /\ last.op = "getStats"
  /\ \E i, j, k \in 1..Len(pageViews) :
       /\ pageViews[i].path = pageViews[j].path
       /\ pageViews[i].sessionId # pageViews[j].sessionId
       /\ pageViews[k].sessionId = pageViews[i].sessionId
       /\ pageViews[k].path # pageViews[i].path

\* C24: a backfill that starts from empty aggregates arrives at the
\* aggregates recordPageView has maintained, the unique-visitors aggregate
\* holding each session's first stored event, and a backfill that starts from
\* the maintained aggregates leaves them as they are.
C24_BackfillEqualsIncremental ==
  LET fromEmpty == backfillFrom(1, EmptyBag, EmptyBag, EmptyBag, {}, 0)
      fromMaintained == backfillFrom(1, pageViewsByPath, totalPageViews,
                                     uniqueVisitors, {}, 0)
  IN /\ fromEmpty[1] = pageViewsByPath
     /\ fromEmpty[2] = totalPageViews
     /\ fromEmpty[3] = uniqueVisitors
     /\ fromMaintained = fromEmpty
     /\ \A x \in BagToSet(fromEmpty[3]) :
          x.id = SetMin(EventsOfSession(x.key))

\* A backfill has run over a log in which a session has a second event
\* after another session's first.
C24_Witness ==
  /\ last.op = "backfillAggregates"
  /\ \E i, j, k \in 1..Len(pageViews) :
       /\ i < j /\ j < k
       /\ pageViews[i].sessionId = pageViews[k].sessionId
       /\ pageViews[i].sessionId # pageViews[j].sessionId

\* C25: a view that arrives exactly DEDUP_WINDOW_MS after the latest stored
\* event of its pair is stored, one that arrives earlier is not, so two
\* events of a pair can be exactly DEDUP_WINDOW_MS apart and never closer.
C25_ExactWindowStores ==
  [][\A p \in Paths, t \in PageTypes, s \in Sessions :
       (recordPageView(p, t, s) /\ TimestampsOf(s, p) # {}) =>
         LET latest == SetMax(TimestampsOf(s, p))
         IN /\ (now - latest = DEDUP_WINDOW_MS) => StoresNow(p, t, s)
            /\ (now - latest < DEDUP_WINDOW_MS) => UNCHANGED pageViews
            /\ \A ts \in TimestampsOf(s, p)' \ TimestampsOf(s, p) :
                 ts - latest >= DEDUP_WINDOW_MS]_vars

\* A view has just been stored exactly one window after the pair's event
\* before it.
C25_Witness ==
  /\ last.outcome = "stored"
  /\ \E s \in Sessions, p \in Paths :
       /\ now \in TimestampsOf(s, p)
       /\ now - DEDUP_WINDOW_MS \in TimestampsOf(s, p)

\* C26: right after a heartbeat of session s with path p at time t, debounced
\* or not, s has exactly one row, the row carries p, and its lastSeen lies in
\* (t - HEARTBEAT_DEDUP_MS, t]; so while the latest heartbeat of s is at most
\* SESSION_TIMEOUT_MS - HEARTBEAT_DEDUP_MS old, the row of s is there, getStats
\* counts it active and cleanupStaleSessions does not take it.
C26_HeartbeatKeepsActive ==
  /\ [][\A s \in Sessions, p \in Paths :
          heartbeat(s, p) =>
            /\ Cardinality(bySessionId(s)') = 1
            /\ \A i \in bySessionId(s)' :
                 /\ activeSessions'[i].currentPath = p
                 /\ now - HEARTBEAT_DEDUP_MS < activeSessions'[i].lastSeen
                 /\ activeSessions'[i].lastSeen <= now]_vars
  /\ [](\A s \in Sessions :
          (/\ lastBeat[s].called
           /\ now - lastBeat[s].at <= SESSION_TIMEOUT_MS - HEARTBEAT_DEDUP_MS)
          => /\ Cardinality(bySessionId(s)) = 1
             /\ \A i \in bySessionId(s) :
                  /\ i \notin staleSessions(now)
                  /\ \E r \in 1..Len(activeSince(now - SESSION_TIMEOUT_MS)) :
                       activeSince(now - SESSION_TIMEOUT_MS)[r] =
                         activeSessions[i])

\* The latest heartbeat of a session was debounced and is exactly
\* SESSION_TIMEOUT_MS - HEARTBEAT_DEDUP_MS old; its row is older still.
C26_Witness ==
  \E s \in Sessions :
    /\ lastBeat[s].called
    /\ now - lastBeat[s].at = SESSION_TIMEOUT_MS - HEARTBEAT_DEDUP_MS
    /\ \E i \in bySessionId(s) : activeSessions[i].lastSeen < lastBeat[s].at

\* The rows getStats counts as active at the instant now.
CountedActive ==
  {activeSince(now - SESSION_TIMEOUT_MS)[r] :
     r \in 1..Len(activeSince(now - SESSION_TIMEOUT_MS))}

\* C27: at no instant is a row both counted active by getStats and deleted
\* by a cleanup run at that instant, and a row whose lastSeen is exactly
\* now - SESSION_TIMEOUT_MS is neither: getStats does not count it and the
\* cleanup leaves it in the table.
C27_ActiveAndStaleDisjoint ==
  /\ [](\A i \in 1..Len(activeSessions) :
          /\ ~(activeSessions[i] \in CountedActive /\ i \in staleSessions(now))
          /\ (activeSessions[i].lastSeen = now - SESSION_TIMEOUT_MS) =>
               /\ activeSessions[i] \notin CountedActive
               /\ i \notin staleSessions(now))
  /\ [][cleanupStaleSessions =>
          \A i \in 1..Len(activeSessions) :
            (activeSessions[i].lastSeen = now - SESSION_TIMEOUT_MS) =>
              \E j \in 1..Len(activeSessions') :
                activeSessions'[j] = activeSessions[i]]_vars

\* A cleanup has run and left a row that is exactly SESSION_TIMEOUT_MS old
\* and that getStats does not count.
C27_Witness ==
  /\ last.op = "cleanupStaleSessions"
  /\ \E i \in 1..Len(activeSessions) :
       activeSessions[i].lastSeen = now - SESSION_TIMEOUT_MS
  /\ CountedActive = {}

\* The views of the entries of pageStats that getStats returns at the
\* instant now.
PageStatsViews ==
  [i \in 1..Len(getStatsReturn(now).pageStats) |->
     getStatsReturn(now).pageStats[i].views]

\* C28: over every step of recordPageView, heartbeat, cleanupStaleSessions
\* and backfillAggregates the totalPageViews and the uniqueVisitors that
\* getStats returns never decrease; uniqueVisitors is never more than
\* totalPageViews, and the views of pageStats add up to totalPageViews.
C28_TotalsMonotone ==
  /\ [][/\ totalPageViewsCount' >= totalPageViewsCount
        /\ uniqueVisitorsCount' >= uniqueVisitorsCount]_vars
  /\ [](/\ uniqueVisitorsCount <= totalPageViewsCount
        /\ getStatsReturn(now).totalPageViews = totalPageViewsCount
        /\ getStatsReturn(now).uniqueVisitors = uniqueVisitorsCount
        /\ Sum(PageStatsViews) = totalPageViewsCount)

\* A cleanup has deleted every row of the table, and the two visitors and
\* their three views are still counted.
C28_Witness ==
  /\ last.op = "cleanupStaleSessions"
  /\ last.count >= 1
  /\ activeSessions = <<>>
  /\ uniqueVisitorsCount = 2
  /\ totalPageViewsCount = 3

====
